---- MODULE Spec2Model ----
(***************************************************************************)
(* A model of the search automation engine of web-search-mcp.              *)
(*                                                                         *)
(* The repository holds two implementations of googleSearch /              *)
(* multiGoogleSearch:                                                      *)
(*   "A"  src/src/services/googleSearch.ts (used with src/unnamed/part_003)*)
(*   "B"  src/unnamed/part_002             (used with src/src/utils/       *)
(*                                          browser.ts)                    *)
(* The variable impl says which of the two a behaviour runs.               *)
(*                                                                         *)
(* One behaviour is one call by a caller: either one multiGoogleSearch     *)
(* (caller = "batch") or one googleSearch (caller = "direct") with or      *)
(* without a browser supplied by the caller.  Everything the browser       *)
(* engine decides (a launch succeeds or fails, a wait completes or times   *)
(* out, the URL is a challenge URL or not, what the page holds) is a       *)
(* nondeterministic choice of the action that consumes it.                 *)
(*                                                                         *)
(* Specifications:                                                         *)
(*   Spec         one multiGoogleSearch call                               *)
(*   SpecSearch   one googleSearch call                                    *)
(*   SpecLive     SpecSearch where every await settles                     *)
(*   SpecRuns     googleSearch calls in a row on one state file            *)
(*   SpecExtract  the extraction block on one results page                 *)
(*   SpecHost     one getHostMachineConfig call of part_003                *)
(***************************************************************************)
EXTENDS Integers, Sequences, FiniteSets, TLC

\* ------------------------------------------------------------------ bounds
MaxQueries == 2      \* longest batch
MaxLimit == 2        \* largest options.limit
MaxElems == 2        \* most ".g" elements of a results page
MaxAnchors == 1      \* most "a[href^='http']" anchors of a results page
MaxAttempts == 3     \* cap on performSearch invocations of one query
MaxRuns == 2         \* most googleSearch calls in a row on one state file
MaxEast == 56        \* host clocks up to UTC+14:00, in quarters of an hour
MaxWest == 48        \* host clocks down to UTC-12:00, in quarters of an hour

\* ----------------------------------------------------------------- helpers
Min(a, b) == IF a < b THEN a ELSE b

Last(s) == s[Len(s)]

\* Array.prototype.slice(0, n) for n >= 0
Slice(s, n) == SubSeq(s, 1, Min(n, Len(s)))

\* String.prototype.includes on token sequences
Includes(s, pat) ==
    \E k \in 1..(Len(s) - Len(pat) + 1) : SubSeq(s, k, k + Len(pat) - 1) = pat

SeqsUpTo(S, n) == UNION {[1..k -> S] : k \in 0..n}

Impls == {"A", "B"}

\* ------------------------------------------------------------- page content
\* URLs are sequences of tokens; the empty URL is << >>.
ExternalUrl == <<"https://", "example.org", "/">>

\* a link to a page of the engine itself, on the domain that served the page
OwnUrl(domain) == domain \o <<"/", "preferences">>

\* new URL(href).host: the tokens between the scheme and the path
Host(url) ==
    LET rest == SubSeq(url, 2, Len(url))
        stops == {k \in 1..Len(rest) : rest[k] = "/"}
    IN  IF stops = {} THEN rest
        ELSE SubSeq(rest, 1, (CHOOSE k \in stops : \A j \in stops : k <= j) - 1)

\* a ".g" element: the text of its h3, the href of its first anchor and
\* whether it sits below "#search"
GElems == [title : {"", "T"}, link : {<< >>, ExternalUrl}, inSearch : BOOLEAN]

\* an "a[href^='http']" element: its href and its text
Anchors(domain) == [href : {ExternalUrl, OwnUrl(domain)}, text : {"", "X"}]

\* the results pages the engine can serve on a domain
Pages(domain) ==
    [gs : SeqsUpTo(GElems, MaxElems), anchors : SeqsUpTo(Anchors(domain), MaxAnchors)]

\* the elements page.$$eval hands to the callback for a container selector
Container(page, sel) ==
    IF sel = "#search .g" THEN SelectSeq(page.gs, LAMBDA e : e.inSearch)
    ELSE page.gs

resultSelectors == <<"#search .g", ".g">>

\* .filter(item => item.title && item.link)
ValidItemMutant(item) == item.title # ""
ValidItem(item) == item.title # "" /\ item.link # << >>

\* elements.slice(0, maxResults)
TruncateMutant(s, n) == s
Truncate(s, n) == Slice(s, n)

\* the callback of one structural strategy
EvalStructural(elements, maxResults) ==
    SelectSeq([k \in 1..Len(Truncate(elements, maxResults)) |->
                  [title |-> elements[k].title, link |-> elements[k].link,
                   snippet |-> "S"]],
              ValidItem)

\* the callback of the generic link fallback
EvalFallback(anchors, maxResults) ==
    LET kept == SelectSeq(anchors,
                          LAMBDA a : ~Includes(a.href, <<"google.com", "/">>))
        cut == Truncate(kept, maxResults)
    IN  SelectSeq([k \in 1..Len(cut) |->
                      [title |-> cut[k].text, link |-> cut[k].href,
                       snippet |-> "P"]],
                  ValidItem)

\* if (results.length > 0) break
StrategyWinsMutant(results) == FALSE
StrategyWins(results) == Len(results) > 0

\* the loop over resultSelectors, first strategy with a result wins
RECURSIVE StructuralFrom(_, _, _)
StructuralFrom(page, maxResults, k) ==
    LET r == EvalStructural(Container(page, resultSelectors[k]), maxResults)
    IN  IF StrategyWins(r) \/ k = Len(resultSelectors) THEN r
        ELSE StructuralFrom(page, maxResults, k + 1)

\* the loop followed by the fallback when it left results empty
ExtractResults(page, maxResults) ==
    LET results == StructuralFrom(page, maxResults, 1)
    IN  IF Len(results) = 0 THEN EvalFallback(page.anchors, maxResults)
        ELSE results

\* the responses of performSearch
Success(query, results) == [query |-> query, results |-> results]

Failure(query, error) ==
    [query |-> query,
     results |-> <<[title |-> "Search failed", link |-> << >>, snippet |-> error]>>]


\* ------------------------------------------------------------- state store
\* Paths are sequences of tokens; ".json" occurs in a path only as a token.
\* the default of options.stateFile in googleSearch
DefaultStateFile == <<"./browser-state", ".json">>

\* options.stateFile as the caller gives it: << >> stands for undefined
StateFileInputs == {<< >>, <<"./state", ".json">>, <<"./state">>}

\* const { stateFile = "./browser-state.json" } = options
StateFileOf(opt) == IF opt = << >> THEN DefaultStateFile ELSE opt

\* String.prototype.replace(pat, rep) with a string pattern: the first
\* occurrence only, the string itself when there is none
ReplaceFirst(s, pat, rep) ==
    IF \E k \in 1..Len(s) : s[k] = pat
    THEN LET k == CHOOSE n \in 1..Len(s) :
                      s[n] = pat /\ \A j \in 1..(n - 1) : s[j] # pat
         IN  SubSeq(s, 1, k - 1) \o rep \o SubSeq(s, k + 1, Len(s))
    ELSE s

\* stateFile.replace(".json", "-fingerprint.json")
FingerprintFile(stateFile) == ReplaceFirst(stateFile, ".json", <<"-fingerprint", ".json">>)

\* the stateFile option multiGoogleSearch hands to the googleSearch call of
\* index (0-based): A suffixes the index, B spreads the options unchanged
SearchStateFile(im, opt, index) ==
    IF im = "A"
    THEN IF opt # << >> THEN opt \o <<"-", ToString(index)>>
         ELSE <<"./browser-state", "-", ToString(index), ".json">>
    ELSE opt

\* the content of a file: none, what context.storageState({path}) writes,
\* a JSON text of a SavedState, or bytes that are no JSON
NoFile == [kind |-> "absent", text |-> << >>]
SnapshotFile == [kind |-> "snapshot", text |-> << >>]
GarbageFile == [kind |-> "garbage", text |-> << >>]
JsonFile(text) == [kind |-> "json", text |-> text]

\* fs.existsSync
ExistsSync(d, path) == d[path].kind # "absent"

\* a SavedState is an object: a function from the keys it has to their values
EmptyState == [k \in {} |-> << >>]

StateKeys == <<"fingerprint", "googleDomain">>

\* obj.key = value
With(obj, key, value) ==
    [k \in DOMAIN obj \cup {key} |-> IF k = key THEN value ELSE obj[k]]

\* a FingerprintConfig as JSON text and back; a domain is text already
EncodeValue(key, value) ==
    IF key = "fingerprint" THEN <<value.deviceName, value.colorScheme>> ELSE value

DecodeValue(key, text) ==
    IF key = "fingerprint" THEN [deviceName |-> text[1], colorScheme |-> text[2]]
    ELSE text

\* JSON.stringify(savedState, null, 2): one member per key the object has
StringifyMutant(obj) ==
    LET keys == SelectSeq(StateKeys, LAMBDA k : k \in DOMAIN obj /\ k # "googleDomain")
    IN  [n \in 1..Len(keys) |->
            [key |-> keys[n], value |-> EncodeValue(keys[n], obj[keys[n]])]]
Stringify(obj) ==
    LET keys == SelectSeq(StateKeys, LAMBDA k : k \in DOMAIN obj)
    IN  [n \in 1..Len(keys) |->
            [key |-> keys[n], value |-> EncodeValue(keys[n], obj[keys[n]])]]

\* JSON.parse of a text Stringify wrote
Parse(text) ==
    [k \in {text[n].key : n \in 1..Len(text)} |->
        DecodeValue(k, text[CHOOSE n \in 1..Len(text) : text[n].key = k].value)]

\* JSON.parse(fs.readFileSync(fingerprintFile)) inside try/catch: a
\* storage-state file parses to an object without fingerprint and
\* googleDomain, bytes that are no JSON leave savedState = {}
ReadSavedState(file) ==
    IF file.kind = "json" THEN Parse(file.text) ELSE EmptyState

\* loadSavedState(stateFile); storageState << >> stands for undefined
LoadSavedState(d, stateFile) ==
    LET fingerprintFile == FingerprintFile(stateFile)
        storageState == IF ExistsSync(d, stateFile) THEN stateFile ELSE << >>
    IN  [storageState |-> storageState,
         savedState |-> IF storageState # << >> /\ ExistsSync(d, fingerprintFile)
                        THEN ReadSavedState(d[fingerprintFile])
                        ELSE EmptyState]

\* how a saveBrowserState call can end: both writes done, storageState({path})
\* throws, or writeFileSync throws
SaveOutcomes == {"ok", "snapshot", "sidecar"}

\* saveBrowserState(context, stateFile, savedState): the disk it leaves
SaveBrowserState(d, stateFile, savedState, out) ==
    LET d1 == IF out = "snapshot" THEN d
              ELSE [d EXCEPT ![stateFile] = SnapshotFile]
    IN  IF out = "ok"
        THEN [d1 EXCEPT ![FingerprintFile(stateFile)] = JsonFile(Stringify(savedState))]
        ELSE d1

\* what a saveBrowserState call did with each of its two writes
SaveWrites(out) ==
    [snapshot |-> IF out = "snapshot" THEN "failed" ELSE "written",
     sidecar |-> CASE out = "ok" -> "written"
                   [] out = "sidecar" -> "failed"
                   [] out = "snapshot" -> "skipped"]

NoSave == [snapshot |-> "none", sidecar |-> "none"]

\* ------------------------------------------------------------- fingerprint
\* getHostMachineConfig: the colour scheme follows the hour of the day
HostConfigs ==
    {[deviceName |-> "Desktop Chrome", colorScheme |-> c] : c \in {"light", "dark"}}

deviceList == {"Desktop Chrome", "Desktop Edge", "Desktop Firefox", "Desktop Safari"}

Truthy(obj, key) == key \in DOMAIN obj /\ obj[key] # << >>

\* A: getDeviceName()
GetDeviceName(savedState, random) ==
    IF Truthy(savedState, "fingerprint") THEN savedState["fingerprint"].deviceName
    ELSE random

\* resolveContextOptions: the context options (device: the descriptor of
\* devices[...] they spread first) and the savedState it leaves
ReuseFingerprint(savedState) == Truthy(savedState, "fingerprint")

ResolveContextOptions(im, savedState, hostConfig, deviceName) ==
    IF im = "A"
    THEN IF ReuseFingerprint(savedState)
         THEN [options |-> [device |-> deviceName,
                            deviceName |-> savedState["fingerprint"].deviceName,
                            colorScheme |-> savedState["fingerprint"].colorScheme],
               savedState |-> savedState]
         ELSE [options |-> [device |-> hostConfig.deviceName,
                            deviceName |-> hostConfig.deviceName,
                            colorScheme |-> hostConfig.colorScheme],
               savedState |-> With(savedState, "fingerprint", hostConfig)]
    ELSE LET fp == IF ReuseFingerprint(savedState) THEN savedState["fingerprint"]
                   ELSE hostConfig
             selectedDevice == fp.deviceName
         IN  [options |-> [device |-> selectedDevice,
                           deviceName |-> fp.deviceName,
                           colorScheme |-> fp.colorScheme],
              savedState |-> IF Truthy(savedState, "fingerprint") THEN savedState
                             ELSE With(savedState, "fingerprint",
                                       [deviceName |-> selectedDevice,
                                        colorScheme |-> fp.colorScheme])]

\* part_003, getHostMachineConfig: the zone by the offset of the host clock
\* new Date().getTimezoneOffset(): minutes, UTC minus local time
TimezoneOffsets == {15 * k : k \in (0 - MaxEast)..MaxWest}

\* new Date().getHours()
Hours == 0..23

\* the if / else if chain over timezoneOffset, from the default
TimezoneId(timezoneOffset) ==
    IF timezoneOffset <= -480 /\ timezoneOffset > -600 THEN "Asia/Shanghai"
    ELSE IF timezoneOffset <= -540 THEN "Asia/Tokyo"
    ELSE IF timezoneOffset <= -420 /\ timezoneOffset > -480 THEN "Asia/Bangkok"
    ELSE IF timezoneOffset <= 0 /\ timezoneOffset > -60 THEN "Europe/London"
    ELSE IF timezoneOffset <= 60 /\ timezoneOffset > 0 THEN "Europe/Berlin"
    ELSE IF timezoneOffset <= 300 /\ timezoneOffset > 240 THEN "America/New_York"
    ELSE "America/New_York"

\* hour >= 19 || hour < 7 ? "dark" : "light"
ColorScheme(hour) == IF hour >= 19 \/ hour < 7 THEN "dark" ELSE "light"

\* the FingerprintConfig getHostMachineConfig returns
GetHostMachineConfig(timezoneOffset, hour) ==
    [deviceName |-> "Desktop Chrome",
     timezoneId |-> TimezoneId(timezoneOffset),
     colorScheme |-> ColorScheme(hour)]

\* ------------------------------------------------------------------ domain
googleDomains(im) ==
    IF im = "A"
    THEN {<<"https://", "www.", "google.com">>, <<"https://", "www.", "google.co.uk">>,
          <<"https://", "www.", "google.ca">>, <<"https://", "www.", "google.com.au">>}
    ELSE {<<"https://", "www.", "google.com">>}

\* savedState.googleDomain || googleDomains[Math.floor(Math.random() * n)]
SelectDomain(savedState, random) ==
    IF Truthy(savedState, "googleDomain") THEN savedState["googleDomain"] ELSE random

\* what the extraction can return on a domain for a limit, over all pages
Extractions ==
    [d \in googleDomains("A") |->
        [l \in 0..MaxLimit |-> {ExtractResults(page, l) : page \in Pages(d)}]]

\* the state an earlier call on the same state file saved
SavedEarlier ==
    [fingerprint |-> [deviceName |-> "Desktop Chrome", colorScheme |-> "light"],
     googleDomain |-> <<"https://", "www.", "google.com">>]

\* the files of a state file and the disk that holds content for each
FilesOf(stateFiles) == stateFiles \cup {FingerprintFile(f) : f \in stateFiles}

FreshDisk(stateFiles) == [f \in FilesOf(stateFiles) |-> NoFile]

SavedDisk(stateFiles) ==
    [f \in FilesOf(stateFiles) |->
        IF f \in {FingerprintFile(s) : s \in stateFiles}
        THEN JsonFile(Stringify(SavedEarlier)) ELSE SnapshotFile]

\* ------------------------------------------------------------------- state
VARIABLES
    impl,         \* which implementation runs: "A" or "B"
    caller,       \* "batch": multiGoogleSearch; "direct": googleSearch
    debug,        \* options.debug
    limit,        \* options.limit
    noSaveState,  \* options.noSaveState
    queries,      \* the queries of the call
    homeInputs,   \* the search-input selectors the engine's home page matches
    stateFile,    \* options.stateFile, << >> when the caller gives none
    disk,         \* the content of every file of the state store
    startDisk,    \* the disk as the googleSearch calls running found it
    run,          \* the number of the googleSearch call on the state file
    extraction,   \* the extraction of one results page, strategy by strategy
    host,         \* one getHostMachineConfig call: the clock read and the result
    existing,     \* existingBrowser: "none", "open" or "closed"
    bpc,          \* where multiGoogleSearch is
    searches,     \* the responses collected so far, by slot
    q             \* per query: the state of its googleSearch call

vars == <<impl, caller, debug, limit, noSaveState, queries, homeInputs,
          stateFile, disk, startDisk, run, extraction, host, existing, bpc,
          searches, q>>

options == <<impl, caller, debug, limit, noSaveState, queries, homeInputs,
             stateFile>>

\* the candidates for the search input, in the order the loop tries them
searchInputSelectors ==
    <<"textarea[name='q']", "input[name='q']", "textarea[title='Search']", "textarea">>

\* what a home page can match, as positions in searchInputSelectors: an
\* element that matches a narrower textarea selector matches "textarea" too
InputSets ==
    {S \in SUBSET (1..Len(searchInputSelectors)) :
        (\E k \in S : k # 2 /\ searchInputSelectors[k] # "textarea")
            => \E k \in S : searchInputSelectors[k] = "textarea"}

\* for (const selector of searchInputSelectors) { searchInput = await
\* page.$(selector); if (searchInput) break; }: the position of the
\* selector that matched, 0 for null
RECURSIVE SearchInputFrom(_, _)
FirstCandidateMutant(present, k) ==
    IF k > Len(searchInputSelectors) THEN 0
    ELSE LET rest == SearchInputFrom(present, k + 1)
         IN  IF rest # 0 THEN rest
             ELSE IF k \in present THEN k ELSE 0
FirstCandidate(present, k) ==
    IF k > Len(searchInputSelectors) THEN 0
    ELSE IF k \in present THEN k
    ELSE SearchInputFrom(present, k + 1)

SearchInputFrom(present, k) == FirstCandidate(present, k)

NoResponse == [query |-> 0, results |-> << >>]

\* queries.map(...): query k of a batch of n
QueryText(k) == 10 + k

\* useHeadless = !options.debug
UseHeadless(dbg) == ~dbg

\* no results page is being extracted on its own
NoExtraction == [pc |-> "off"]

\* no getHostMachineConfig call is run on its own
NoHost == [pc |-> "off"]

\* the state of a googleSearch call at its start
NewQuery(dbg, startPc) ==
    [pc |-> startPc,
     storageState |-> << >>,    \* loadSavedState: the snapshot to restore
     savedState |-> EmptyState, \* the SavedState in memory
     lastSave |-> NoSave,   \* the writes of the saveBrowserState just run
     attempts |-> <<UseHeadless(dbg)>>,  \* headless flag of each performSearch call
     force |-> FALSE,       \* forceNewBrowser of the current call
     bwp |-> FALSE,         \* browserWasProvided of the current call
     cur |-> 0,             \* browser of the current call: 0 existing, k own[k]
     closedGiven |-> FALSE, \* the step just taken closed existingBrowser
     own |-> << >>,         \* the browser processes this query launched
     sess |-> << >>,        \* the contexts and pages this query created
     blocked |-> FALSE,     \* page.url() matches a challenge pattern
     respBlocked |-> FALSE, \* response.url() of the home page matches one
     input |-> 0,           \* the selector of the search input found, 0 none
     typed |-> 0,           \* the text typed and submitted, 0 none
     results |-> << >>,     \* results of the extraction
     timedOut |-> "none",   \* the wait the latest step saw time out, if any
     resp |-> NoResponse]   \* the value the call resolved to

\* the state file of query k (1-based) of a batch
BatchStateFile(im, opt, k) == StateFileOf(SearchStateFile(im, opt, k - 1))

\* one multiGoogleSearch call on state files an earlier call saved.  The
\* batch claims do not read the results, so the call takes limit 0 and
\* the default noSaveState, stateFile and home page.
Init ==
    /\ impl \in Impls
    /\ debug \in BOOLEAN
    /\ limit = 0
    /\ noSaveState = FALSE
    /\ caller = "batch"
    /\ \E n \in 0..MaxQueries : queries = [k \in 1..n |-> QueryText(k)]
    /\ homeInputs = 1..Len(searchInputSelectors)
    /\ stateFile = << >>
    /\ disk = SavedDisk({BatchStateFile(impl, stateFile, k) : k \in 1..Len(queries)})
    /\ startDisk = disk
    /\ run = 1
    /\ extraction = NoExtraction
    /\ host = NoHost
    /\ existing = "none"
    /\ bpc = "call"
    /\ q = [k \in 1..Len(queries) |-> NewQuery(debug, "idle")]
    /\ searches = [k \in 1..Len(queries) |-> NoResponse]

\* one googleSearch call, with or without a browser of the caller, on the
\* default state file as an earlier call saved it
InitSearch ==
    /\ impl \in Impls
    /\ debug \in BOOLEAN
    /\ limit \in 0..MaxLimit
    /\ noSaveState \in BOOLEAN
    /\ caller = "direct"
    /\ queries = <<QueryText(1)>>
    /\ homeInputs \in InputSets
    /\ stateFile = << >>
    /\ disk = SavedDisk({StateFileOf(stateFile)})
    /\ startDisk = disk
    /\ run = 1
    /\ extraction = NoExtraction
    /\ host = NoHost
    /\ existing \in {"none", "open"}
    /\ bpc = "none"
    /\ q = [k \in 1..1 |-> NewQuery(debug, "launch")]
    /\ searches = [k \in 1..1 |-> NoResponse]

\* googleSearch calls in a row on one state file, from a disk that holds
\* no state, or a snapshot whose sidecar is missing or no JSON
InitRuns ==
    /\ impl \in Impls
    /\ debug \in BOOLEAN
    /\ limit = MaxLimit
    /\ noSaveState \in BOOLEAN
    /\ caller = "direct"
    /\ queries = <<QueryText(1)>>
    /\ homeInputs = 1..Len(searchInputSelectors)
    /\ stateFile \in StateFileInputs
    /\ \E sidecar \in {NoFile, GarbageFile} :
          LET file == StateFileOf(stateFile)
              fresh == FreshDisk({file})
          IN  disk \in {fresh,
                        [[fresh EXCEPT ![FingerprintFile(file)] = sidecar]
                            EXCEPT ![file] = SnapshotFile]}
    /\ startDisk = disk
    /\ run = 1
    /\ extraction = NoExtraction
    /\ host = NoHost
    /\ existing \in {"none", "open"}
    /\ bpc = "none"
    /\ q = [k \in 1..1 |-> NewQuery(debug, "launch")]
    /\ searches = [k \in 1..1 |-> NoResponse]

\* the stateFile of the googleSearch call of query i
QueryStateFile(i) ==
    IF caller = "batch" THEN BatchStateFile(impl, stateFile, i)
    ELSE StateFileOf(stateFile)

\* --------------------------------------------------- performSearch, pieces
\* browserWasProvided = !!existingBrowser && !forceNewBrowser
BrowserWasProvided(ex, forceNewBrowser) == ex # "none" /\ ~forceNewBrowser

\* if (!browserWasProvided && !options.debug) await browser.close()
CloseOnExitMutant(bwp, dbg) == ~dbg
CloseOnExit(bwp, dbg) == ~bwp /\ ~dbg

\* the arguments of the retry: performSearch(false, browserWasProvided)
RetryHeadlessMutant == TRUE
RetryHeadless == FALSE

ForceNewBrowserMutant(bwp) == FALSE
ForceNewBrowser(bwp) == bwp

\* if (!noSaveState) await saveBrowserState(context, stateFile, savedState)
SavesStateMutant(noSave) == TRUE
SavesState(noSave) == ~noSave

\* isBlocked()
IsBlocked(im, pageBlocked, responseBlocked) ==
    IF im = "A" THEN pageBlocked \/ responseBlocked ELSE pageBlocked

\* whether the wait for a manual solve can time out: A waits
\* waitForNavigation({timeout: timeout * 2}), B waitForURL(..., {timeout: 0})
ManualSolveTimeoutMutant(im) == TRUE
ManualSolveTimeout(im) == im = "A"

\* whether the caller's try block awaits the retry: A returns the promise
\* of performSearch(false, ...), B awaits it in handleBlocked
RetryAwaited(im) == im = "B"

BrowserOpen(r, b) == IF b = 0 THEN existing = "open" ELSE r.own[b].open

\* browser.close() on the browser of the current call
CloseBrowser(r) ==
    IF r.cur = 0 THEN [r EXCEPT !.closedGiven = TRUE]
    ELSE [r EXCEPT !.own[r.cur].open = FALSE]

SessionOpen(r, k) ==
    /\ r.sess[k].context
    /\ BrowserOpen(r, r.sess[k].browser)

\* the catch block of performSearch
Catch(r, query, error) ==
    LET r1 == IF CloseOnExit(r.bwp, debug) THEN CloseBrowser(r) ELSE r
    IN  [r1 EXCEPT !.pc = "done", !.results = << >>,
                   !.blocked = FALSE, !.respBlocked = FALSE,
                   !.resp = Failure(query, error)]

\* an exception raised before the try block of performSearch: the call
\* rejects; the retry's rejection is caught by the first call's catch block
\* when that call awaits it (whose browser.close() then meets the browser
\* the escalation has closed already)
Reject(r, query, error) ==
    IF Len(r.attempts) > 1 /\ RetryAwaited(impl)
    THEN LET r1 == IF CloseOnExit(r.force, debug) /\ Len(r.own) > 0
                   THEN [r EXCEPT !.own[1].open = FALSE] ELSE r
         IN  [r1 EXCEPT !.pc = "done", !.resp = Failure(query, error)]
    ELSE [r EXCEPT !.pc = "rejected"]

\* the end of the try block: close the browser and return the results
Return(r, query) ==
    LET r1 == IF CloseOnExit(r.bwp, debug) THEN CloseBrowser(r) ELSE r
    IN  [r1 EXCEPT !.pc = "done", !.results = << >>,
                   !.blocked = FALSE, !.respBlocked = FALSE,
                   !.resp = Success(query, r.results)]

\* the headless branch of the challenge check: close page, context and the
\* browser this call launched, then call performSearch(false, browserWasProvided)
Escalate(r) ==
    LET n == Len(r.sess)
        r1 == [r EXCEPT !.sess[n].page = FALSE, !.sess[n].context = FALSE]
        r2 == IF ~r.bwp THEN CloseBrowser(r1) ELSE r1
    IN  [r2 EXCEPT !.attempts = Append(r.attempts, RetryHeadless),
                   !.force = ForceNewBrowser(r.bwp),
                   !.blocked = FALSE, !.respBlocked = FALSE,
                   !.input = 0, !.typed = 0,
                   !.pc = "launch"]

\* the challenge check after a navigation: escalate when headless, wait for
\* the manual solve when visible, go on when the URL is no challenge
HandleBlocked(r, next, wait) ==
    IF IsBlocked(impl, r.blocked, r.respBlocked)
    THEN IF Last(r.attempts) THEN Escalate(r) ELSE [r EXCEPT !.pc = wait]
    ELSE [r EXCEPT !.pc = next]

CanEscalate(r) == Len(r.attempts) < MaxAttempts

\* Promise.all stores the value of promise i in slot i
CollectSlotMutant(vals, i, v) ==
    LET free == {k \in DOMAIN vals : vals[k] = NoResponse}
        first == CHOOSE k \in free : \A j \in free : k <= j
    IN  [vals EXCEPT ![first] = v]
CollectSlot(vals, i, v) == [vals EXCEPT ![i] = v]

\* query i as its next step finds it
Current(i) ==
    [q[i] EXCEPT !.timedOut = "none", !.lastSave = NoSave, !.closedGiven = FALSE]

\* query i moves to state new and leaves the disk as d
StepDisk(i, new, d) ==
    /\ q' = [q EXCEPT ![i] = new]
    /\ searches' = IF new.pc = "done" THEN CollectSlot(searches, i, new.resp)
                   ELSE searches
    /\ disk' = d
    /\ existing' = IF new.closedGiven THEN "closed" ELSE existing
    /\ UNCHANGED <<options, startDisk, run, extraction, host, bpc>>

\* query i moves to state new
Step(i, new) == StepDisk(i, new, disk)

\* const { storageState, savedState } = loadSavedState(stateFile)
Load(i, r) ==
    LET l == LoadSavedState(disk, QueryStateFile(i))
    IN  [r EXCEPT !.storageState = l.storageState, !.savedState = l.savedState]

\* resolveContextOptions on the savedState of r; A passes getDeviceName()
Resolve(r, hostConfig, random) ==
    ResolveContextOptions(impl, r.savedState, hostConfig,
                          GetDeviceName(r.savedState, random))

\* the draws a step makes: Math.random() and the clock are read only where
\* no saved value short-circuits them (B reads the clock always and lets the
\* saved fingerprint override what it read)
HostDraws(r) ==
    IF Truthy(r.savedState, "fingerprint") THEN {CHOOSE h \in HostConfigs : TRUE}
    ELSE HostConfigs

DeviceDraws(r) ==
    IF impl = "B" \/ Truthy(r.savedState, "fingerprint")
    THEN {CHOOSE d \in deviceList : TRUE}
    ELSE deviceList

DomainDraws(r) ==
    IF Truthy(r.savedState, "googleDomain")
    THEN {CHOOSE d \in googleDomains(impl) : TRUE}
    ELSE googleDomains(impl)

\* selectedDomain = ...; savedState.googleDomain = selectedDomain
ChooseDomain(r, random) ==
    [r EXCEPT !.savedState = With(r.savedState, "googleDomain",
                                  SelectDomain(r.savedState, random))]


\* ------------------------------------------------------ performSearch, steps
\* the start of performSearch: use the browser supplied or launch one (in A
\* the first call follows loadSavedState at the start of googleSearch)
Launch(i) ==
    /\ q[i].pc = "launch"
    /\ LET r == IF impl = "A" /\ Len(q[i].attempts) = 1 THEN Load(i, Current(i))
                ELSE Current(i)
           bwp == BrowserWasProvided(existing, r.force)
       IN  IF bwp
           THEN Step(i, [r EXCEPT !.bwp = TRUE, !.cur = 0, !.pc = "setup"])
           ELSE \E ok \in BOOLEAN :
                  IF ok
                  THEN Step(i, [r EXCEPT
                                  !.bwp = FALSE,
                                  !.own = Append(r.own, [headless |-> Last(r.attempts),
                                                         attempt |-> Len(r.attempts),
                                                         open |-> TRUE]),
                                  !.cur = Len(r.own) + 1,
                                  !.pc = "setup"])
                  ELSE Step(i, Reject([r EXCEPT !.bwp = FALSE], queries[i],
                                      "LaunchFailed"))

\* resolveContextOptions, setupContext (in B after its loadSavedState) and
\* setupPage: browser.newContext, context.newPage; in B the choice of the
\* domain follows
SetupSession(i) ==
    /\ q[i].pc = "setup"
    /\ LET r0 == IF impl = "B" THEN Load(i, Current(i)) ELSE Current(i)
       IN  \E hostConfig \in HostDraws(r0), device \in DeviceDraws(r0),
              domain \in IF impl = "B" THEN DomainDraws(r0) ELSE {<< >>},
              out \in {"ok", "nocontext", "nopage"} :
          LET res == Resolve(r0, hostConfig, device)
              r == [r0 EXCEPT !.savedState = res.savedState]
              ctx == [browser |-> r.cur, context |-> TRUE, page |-> TRUE,
                      home |-> FALSE, options |-> res.options, url |-> << >>]
          IN  /\ BrowserOpen(r, r.cur) \/ out = "nocontext"
              /\ CASE out = "ok" ->
                        Step(i, IF impl = "B"
                                THEN [ChooseDomain(r, domain) EXCEPT
                                        !.sess = Append(r.sess, ctx),
                                        !.pc = IF SavesState(noSaveState)
                                               THEN "presave" ELSE "goto"]
                                ELSE [r EXCEPT !.sess = Append(r.sess, ctx),
                                               !.pc = "goto"])
                   [] out = "nocontext" ->
                        Step(i, Reject(r, queries[i], "EngineUnavailable"))
                   [] out = "nopage" ->
                        Step(i, Reject([r EXCEPT !.sess =
                                           Append(r.sess, [ctx EXCEPT !.page = FALSE])],
                                       queries[i], "EngineUnavailable"))

\* B only: saveBrowserState before the try block
PreSave(i) ==
    /\ q[i].pc = "presave"
    /\ LET r == Current(i)
       IN  \E out \in SaveOutcomes :
             LET r1 == [r EXCEPT !.lastSave = SaveWrites(out)]
                 d == SaveBrowserState(disk, QueryStateFile(i), r.savedState, out)
             IN  /\ BrowserOpen(r, r.cur) \/ out = "snapshot"
                 /\ IF out = "ok" THEN StepDisk(i, [r1 EXCEPT !.pc = "goto"], d)
                    ELSE StepDisk(i, Reject(r1, queries[i], "PersistenceFailure"), d)

\* page.goto(selectedDomain, {timeout}) and the first challenge check
GotoHome(i) ==
    /\ q[i].pc = "goto"
    /\ \E domain \in DomainDraws(Current(i)),
          out \in {"challenge", "home", "Timeout", "NavigationError", "Closed"} :
          LET r0 == Current(i)
              r1 == IF impl = "A" THEN ChooseDomain(r0, domain) ELSE r0
              r == [r1 EXCEPT !.sess[Len(r0.sess)].url = r1.savedState["googleDomain"]]
          IN /\ BrowserOpen(r, r.cur) <=> out # "Closed"
             /\ out = "challenge" /\ Last(r.attempts) => CanEscalate(r)
             /\ IF out \in {"challenge", "home"}
                THEN Step(i, HandleBlocked(
                                [r EXCEPT !.blocked = (out = "challenge"),
                                          !.respBlocked = (out = "challenge"),
                                          !.sess[Len(r.sess)].home = TRUE],
                                "findbox", "wait1"))
                ELSE Step(i, Catch([r EXCEPT !.timedOut =
                                       IF out = "Timeout" THEN "home" ELSE @],
                                   queries[i], out))

\* the visible-mode wait for the manual solve (and, in A after the second
\* check, the waitForLoadState that follows it)
ManualSolve(i) ==
    /\ q[i].pc \in {"wait1", "wait2"}
    /\ LET r == Current(i)
           loads == r.pc = "wait2" /\ impl = "A"
       IN  \E out \in {"solved", "ManualTimeout", "LoadTimeout", "Closed"} :
             /\ BrowserOpen(r, r.cur) <=> out # "Closed"
             /\ out = "ManualTimeout" => ManualSolveTimeout(impl)
             /\ out = "LoadTimeout" => loads
             /\ CASE out = "solved" ->
                       Step(i, [r EXCEPT !.blocked = FALSE,
                                         !.pc = IF r.pc = "wait1" THEN "findbox"
                                                ELSE "waitsel"])
                  [] out = "ManualTimeout" ->
                       Step(i, Catch([r EXCEPT !.timedOut = "manual"],
                                     queries[i], "Timeout"))
                  [] out = "LoadTimeout" ->
                       Step(i, Catch([r EXCEPT !.blocked = FALSE, !.timedOut = "load"],
                                     queries[i], "Timeout"))
                  [] out = "Closed" ->
                       Step(i, Catch(r, queries[i], "Closed"))

\* the search input: the selector cascade, click, type, Enter
SubmitQuery(i) ==
    /\ q[i].pc = "findbox"
    /\ LET r == Current(i)
           searchInput == SearchInputFrom(homeInputs, 1)
       IN  IF ~BrowserOpen(r, r.cur) THEN Step(i, Catch(r, queries[i], "Closed"))
           ELSE IF searchInput = 0
                THEN Step(i, Catch(r, queries[i], "Could not find search box"))
                ELSE Step(i, [r EXCEPT !.input = searchInput,
                                       !.typed = queries[i],
                                       !.pc = "waitload"])

\* A: waitForLoadState("networkidle", {timeout}); B: waitForURL(results or
\* challenge, {timeout}); then the second challenge check
WaitResultsLoad(i) ==
    /\ q[i].pc = "waitload"
    /\ LET r == Current(i)
       IN  \E out \in {"challenge", "results", "Timeout", "Closed"} :
             /\ BrowserOpen(r, r.cur) <=> out # "Closed"
             /\ out = "challenge" /\ Last(r.attempts) => CanEscalate(r)
             /\ IF out \in {"challenge", "results"}
                THEN Step(i, HandleBlocked([r EXCEPT !.blocked = (out = "challenge")],
                                           "waitsel", "wait2"))
                ELSE Step(i, Catch([r EXCEPT !.timedOut =
                                       IF out = "Timeout" THEN "load" ELSE @],
                                   queries[i], out))

\* what the loop over searchResultSelectors does with a wait that fails:
\* catch (e) {} and go on
ContainerWaitFails(r) == [r EXCEPT !.pc = "extract"]

\* the loop of page.waitForSelector over searchResultSelectors
WaitContainer(i) ==
    /\ q[i].pc = "waitsel"
    /\ LET r == Current(i)
       IN  \E out \in {"found", "Timeout", "Closed"} :
             /\ BrowserOpen(r, r.cur) <=> out # "Closed"
             /\ CASE out = "found" -> Step(i, [r EXCEPT !.pc = "extract"])
                  [] out = "Timeout" ->
                       Step(i, ContainerWaitFails([r EXCEPT !.timedOut = "container"]))
                  [] out = "Closed" -> Step(i, ContainerWaitFails(r))

\* the structural strategies and the fallback, then (noSaveState) the return
Extract(i) ==
    /\ q[i].pc = "extract"
    /\ LET r == Current(i)
       IN  IF ~BrowserOpen(r, r.cur)
           THEN Step(i, Catch(r, queries[i], "Closed"))
           ELSE \E results \in Extractions[Last(r.sess).url][limit] :
                  LET r1 == [r EXCEPT !.results = results]
                  IN  IF SavesState(noSaveState)
                      THEN Step(i, [r1 EXCEPT !.pc = "save"])
                      ELSE Step(i, Return(r1, queries[i]))

\* saveBrowserState at the end of the try block, then the return
SaveAndReturn(i) ==
    /\ q[i].pc = "save"
    /\ LET r == Current(i)
       IN  \E out \in SaveOutcomes :
             LET r1 == [r EXCEPT !.lastSave = SaveWrites(out)]
                 d == SaveBrowserState(disk, QueryStateFile(i), r.savedState, out)
             IN  /\ BrowserOpen(r, r.cur) \/ out = "snapshot"
                 /\ IF out = "ok" THEN StepDisk(i, Return(r1, queries[i]), d)
                    ELSE StepDisk(i, Catch(r1, queries[i], "PersistenceFailure"), d)

\* --------------------------------------------------------- multiGoogleSearch
\* if (!options.debug) await browser.close()
BatchClosesMutant(dbg) == FALSE
BatchCloses(dbg) == ~dbg

\* the check of queries, launchBrowser and the calls of googleSearch
BatchStart ==
    /\ bpc = "call"
    /\ IF Len(queries) = 0
       THEN bpc' = "raised" /\ UNCHANGED <<existing, q>>
       ELSE \E ok \in BOOLEAN :
              IF ok
              THEN /\ existing' = "open"
                   /\ bpc' = "running"
                   /\ q' = [k \in DOMAIN q |-> [q[k] EXCEPT !.pc = "launch"]]
              ELSE bpc' = "raised" /\ UNCHANGED <<existing, q>>
    /\ UNCHANGED <<options, disk, startDisk, run, extraction, host, searches>>

\* Promise.all settles (all fulfilled, or one rejected), then the finally block
BatchSettle ==
    /\ bpc = "running"
    /\ LET rejected == \E k \in DOMAIN q : q[k].pc = "rejected"
           fulfilled == \A k \in DOMAIN q : q[k].pc = "done"
       IN  /\ rejected \/ fulfilled
           /\ bpc' = IF rejected THEN "raised" ELSE "returned"
    /\ existing' = IF BatchCloses(debug) THEN "closed" ELSE existing
    /\ UNCHANGED <<options, disk, startDisk, run, extraction, host, searches, q>>

Next ==
    \/ BatchStart
    \/ BatchSettle
    \/ \E i \in DOMAIN q : Launch(i)
    \/ \E i \in DOMAIN q : SetupSession(i)
    \/ \E i \in DOMAIN q : PreSave(i)
    \/ \E i \in DOMAIN q : GotoHome(i)
    \/ \E i \in DOMAIN q : ManualSolve(i)
    \/ \E i \in DOMAIN q : SubmitQuery(i)
    \/ \E i \in DOMAIN q : WaitResultsLoad(i)
    \/ \E i \in DOMAIN q : WaitContainer(i)
    \/ \E i \in DOMAIN q : Extract(i)
    \/ \E i \in DOMAIN q : SaveAndReturn(i)

Spec == Init /\ [][Next]_vars

NextSearch ==
    \/ Launch(1)
    \/ SetupSession(1)
    \/ PreSave(1)
    \/ GotoHome(1)
    \/ ManualSolve(1)
    \/ SubmitQuery(1)
    \/ WaitResultsLoad(1)
    \/ WaitContainer(1)
    \/ Extract(1)
    \/ SaveAndReturn(1)

SpecSearch == InitSearch /\ [][NextSearch]_vars

\* one googleSearch call every await of which settles: a bounded wait
\* completes or times out (launchBrowser, page.goto, waitForLoadState,
\* waitForURL, waitForSelector carry a timeout), every other engine call
\* returns or throws, and a challenge shown in a visible browser is solved
SpecLive == InitSearch /\ [][NextSearch]_vars /\ WF_vars(NextSearch)

\* the extraction block of performSearch on one results page of one domain
InitExtract ==
    /\ impl = "A"
    /\ debug = FALSE
    /\ limit \in 0..MaxLimit
    /\ noSaveState = TRUE
    /\ caller = "extract"
    /\ queries = << >>
    /\ homeInputs = {}
    /\ stateFile = << >>
    /\ disk = FreshDisk({})
    /\ startDisk = disk
    /\ run = 1
    /\ \E domain \in googleDomains(impl) : \E page \in Pages(domain) :
          extraction = [pc |-> "structural", domain |-> domain, page |-> page,
                        k |-> 1, results |-> << >>]
    /\ host = NoHost
    /\ existing = "none"
    /\ bpc = "none"
    /\ q = << >>
    /\ searches = << >>

\* one round of the loop over resultSelectors: page.$$eval of the container
\* of strategy k, then the break or the next strategy
TryStrategy ==
    /\ extraction.pc = "structural"
    /\ LET results == EvalStructural(Container(extraction.page,
                                               resultSelectors[extraction.k]), limit)
       IN  extraction' =
              [extraction EXCEPT
                 !.results = results,
                 !.pc = IF StrategyWins(results) THEN "done"
                        ELSE IF extraction.k = Len(resultSelectors)
                             THEN IF Len(results) = 0 THEN "fallback" ELSE "done"
                             ELSE "structural",
                 !.k = IF StrategyWins(results) \/ extraction.k = Len(resultSelectors)
                       THEN @ ELSE @ + 1]
    /\ UNCHANGED <<options, disk, startDisk, run, host, existing, bpc, searches, q>>

\* if (results.length === 0): the generic link fallback; k = 0 records it
Fallback ==
    /\ extraction.pc = "fallback"
    /\ extraction' = [extraction EXCEPT
                         !.results = EvalFallback(extraction.page.anchors, limit),
                         !.k = 0,
                         !.pc = "done"]
    /\ UNCHANGED <<options, disk, startDisk, run, host, existing, bpc, searches, q>>

NextExtract == TryStrategy \/ Fallback

SpecExtract == InitExtract /\ [][NextExtract]_vars

\* one getHostMachineConfig call of part_003 on a host clock
InitHost ==
    /\ impl = "A"
    /\ debug = FALSE
    /\ limit = 0
    /\ noSaveState = TRUE
    /\ caller = "host"
    /\ queries = << >>
    /\ homeInputs = {}
    /\ stateFile = << >>
    /\ disk = FreshDisk({})
    /\ startDisk = disk
    /\ run = 1
    /\ extraction = NoExtraction
    /\ \E timezoneOffset \in TimezoneOffsets, hour \in Hours :
          host = [pc |-> "call", timezoneOffset |-> timezoneOffset, hour |-> hour,
                  config |-> << >>]
    /\ existing = "none"
    /\ bpc = "none"
    /\ q = << >>
    /\ searches = << >>

\* the call reads the clock and returns the configuration
HostConfig ==
    /\ host.pc = "call"
    /\ host' = [host EXCEPT
                   !.config = GetHostMachineConfig(host.timezoneOffset, host.hour),
                   !.pc = "returned"]
    /\ UNCHANGED <<options, disk, startDisk, run, extraction, existing, bpc,
                   searches, q>>

NextHost == HostConfig

SpecHost == InitHost /\ [][NextHost]_vars

\* the caller calls googleSearch again, on the same state file, once the
\* call before has ended
NextRun ==
    /\ caller = "direct"
    /\ run < MaxRuns
    /\ q[1].pc \in {"done", "rejected"}
    /\ run' = run + 1
    /\ q' = [k \in 1..1 |-> NewQuery(debug, "launch")]
    /\ searches' = [k \in 1..1 |-> NoResponse]
    /\ startDisk' = disk
    /\ UNCHANGED <<options, disk, extraction, host, existing, bpc>>

NextRuns == NextSearch \/ NextRun

SpecRuns == InitRuns /\ [][NextRuns]_vars


\* ------------------------------------------------------------------ claims
Settled(r) == r.pc \in {"done", "rejected"}

\* the synthetic failure record, whatever its detail
IsFailure(resp) ==
    /\ Len(resp.results) = 1
    /\ resp.results[1].title = "Search failed"
    /\ resp.results[1].link = << >>

AfterHome == {"wait1", "findbox", "waitload", "wait2", "waitsel", "extract", "save"}

\* C1: a failure of one query, in whatever step, never makes the batch call
\* raise (a batch of at least one query whose shared browser was launched
\* always returns), never leaves a query without a response, and the failing
\* query's response is the synthetic failure record.
C1_BatchIsolation ==
    /\ \A i \in DOMAIN q : q[i].pc # "rejected"
    /\ bpc = "raised" => Len(queries) = 0 \/ existing = "none"
    /\ bpc = "returned" => \A i \in DOMAIN q : searches[i] # NoResponse

\* C2: the responses of a batch are collected by input index: the slot of
\* every query that has completed holds a response to that query, whatever
\* order the queries complete in, and the sequence returned has one response
\* per query.
C2_OrderPreserved ==
    /\ Len(searches) = Len(queries)
    /\ \A i \in DOMAIN q :
         /\ q[i].pc = "done" => searches[i].query = queries[i]
         /\ searches[i] # NoResponse => searches[i].query = queries[i]
    /\ bpc = "returned" => \A i \in DOMAIN q : searches[i].query = queries[i]

\* C2, witness: the second query of a batch completed while the first still runs
C2_Witness ==
    /\ bpc = "running"
    /\ Len(queries) >= 2
    /\ q[2].pc = "done"
    /\ ~Settled(q[1])
    /\ searches[2].query = queries[2]

\* C3: escalation is one-shot: a query makes at most two performSearch calls,
\* the second one only after a headless first one and always visible; a
\* headless call that meets a challenge never goes on or waits; a query
\* started visible never escalates.
C3_OneShotEscalation ==
    \A i \in DOMAIN q :
        /\ Len(q[i].attempts) <= 2
        /\ Len(q[i].attempts) = 2 => q[i].attempts = <<TRUE, FALSE>>
        /\ debug => q[i].attempts = <<FALSE>>
        /\ Last(q[i].attempts) => ~q[i].blocked /\ q[i].pc \notin {"wait1", "wait2"}

\* C3, witness: the visible retry of a headless query meets the challenge
\* again and waits
C3_Witness ==
    \E i \in DOMAIN q :
        /\ q[i].attempts = <<TRUE, FALSE>>
        /\ q[i].pc = "wait1"
        /\ q[i].blocked

\* C4: once a query has escalated, the page and context of its headless call
\* are closed; the retry's session lives in a browser this query launched for
\* the retry, not headless and not the browser of the headless call; and a
\* call that is past the home page has navigated there in its own session.
C4_EscalationRecreates ==
    \A i \in DOMAIN q :
        LET r == q[i]
        IN  /\ Len(r.attempts) = 2 =>
                /\ Len(r.sess) >= 1
                /\ ~r.sess[1].page /\ ~r.sess[1].context
                /\ Len(r.sess) = 2 =>
                     LET b == r.sess[2].browser
                     IN  /\ b > 0
                         /\ b # r.sess[1].browser
                         /\ ~r.own[b].headless
                         /\ r.own[b].attempt = 2
            /\ r.pc \in AfterHome =>
                /\ Len(r.sess) = Len(r.attempts)
                /\ Last(r.sess).home
                /\ Last(r.sess).browser = r.cur

\* C4, witness: the retry of a query that was given a browser is past the
\* home page
C4_Witness ==
    \E i \in DOMAIN q :
        /\ existing = "open"
        /\ q[i].attempts = <<TRUE, FALSE>>
        /\ q[i].pc = "findbox"

\* C5: when a query has ended, every context and page it created and every
\* browser process it launched is closed.
C5_ReleasedOnExit ==
    \A i \in DOMAIN q :
        Settled(q[i]) =>
            /\ \A k \in DOMAIN q[i].sess : ~SessionOpen(q[i], k)
            /\ \A b \in DOMAIN q[i].own : ~q[i].own[b].open

C7_AtMostLimit ==
    \A i \in DOMAIN q :
        q[i].pc = "done" => Len(q[i].resp.results) <= limit

\* C7 as amended: a response of the extraction has at most limit results,
\* a failure response has exactly one, so every response has at most limit
\* results when limit is at least 1.
C7_AtMostLimitPositive ==
    \A i \in DOMAIN q :
        q[i].pc = "done" =>
            /\ ~IsFailure(q[i].resp) => Len(q[i].resp.results) <= limit
            /\ IsFailure(q[i].resp) => Len(q[i].resp.results) = 1
            /\ limit >= 1 => Len(q[i].resp.results) <= limit

\* C7, witness: an extraction filled the limit, below the size of a page
C7_Witness ==
    \E i \in DOMAIN q :
        /\ q[i].pc = "done"
        /\ ~IsFailure(q[i].resp)
        /\ limit >= 1 /\ limit < MaxElems
        /\ Len(q[i].resp.results) = limit

\* C8 as claimed: every record of every response has a title and a link.
C8_AllNonEmpty ==
    \A i \in DOMAIN q :
        q[i].pc = "done" =>
            \A k \in DOMAIN q[i].resp.results :
                /\ q[i].resp.results[k].title # ""
                /\ q[i].resp.results[k].link # << >>

\* C8 as amended: every record of a response of the extraction has a title
\* and a link; a failure response is the one synthetic record, whose link is
\* empty.
C8_ExtractedNonEmpty ==
    \A i \in DOMAIN q :
        q[i].pc = "done" =>
            \/ IsFailure(q[i].resp)
            \/ \A k \in DOMAIN q[i].resp.results :
                  /\ q[i].resp.results[k].title # ""
                  /\ q[i].resp.results[k].link # << >>

\* C8, witness: a query returned records of the extraction
C8_Witness ==
    \E i \in DOMAIN q :
        /\ q[i].pc = "done"
        /\ ~IsFailure(q[i].resp)
        /\ Len(q[i].resp.results) >= 1

\* C9 as claimed: the wait for the manual solve never times out.
C9_NeverManualTimeout ==
    \A i \in DOMAIN q : q[i].timedOut # "manual"

\* C9 as amended: only a visible call waits for a manual solve, and a call
\* goes on from the wait only with a page URL that matches no challenge
\* pattern; in B the wait never times out; in A it can, and the query then
\* ends with the failure response.
C9_ManualWait ==
    \A i \in DOMAIN q :
        /\ q[i].pc \in {"wait1", "wait2"} => ~Last(q[i].attempts)
        /\ q[i].pc \in {"findbox", "waitsel", "extract", "save"} => ~q[i].blocked
        /\ impl = "B" => q[i].timedOut # "manual"
        /\ q[i].timedOut = "manual" =>
             q[i].pc = "done" /\ q[i].resp = Failure(queries[i], "Timeout")

\* C9, witness: in B a visible call met the challenge on the home page and
\* goes on after the solve
C9_Witness ==
    \E i \in DOMAIN q :
        /\ impl = "B"
        /\ q[i].pc = "findbox"
        /\ q[i].respBlocked /\ ~q[i].blocked

\* C10: a bounded wait (home page, results load, results container) that
\* times out ends the query with the failure response.
C10_TimeoutFails ==
    \A i \in DOMAIN q :
        q[i].timedOut \in {"home", "load", "container"} =>
            q[i].pc = "done" /\ q[i].resp = Failure(queries[i], "Timeout")

\* C11: the search input is the first candidate, in the fixed order, that
\* the page matches; nothing is typed without an input; and when the page
\* matches no candidate nothing is typed or submitted and the response is
\* exactly one record with title "Search failed", an empty link and the
\* failure detail as snippet.
C11_SearchInput ==
    \A i \in DOMAIN q :
      /\ q[i].input # 0 =>
            /\ q[i].input \in homeInputs
            /\ \A s \in homeInputs : q[i].input <= s
      /\ q[i].typed # 0 => q[i].input # 0 /\ q[i].typed = queries[i]
      /\ homeInputs = {} =>
            /\ q[i].typed = 0
            /\ q[i].pc \notin {"waitload", "wait2", "waitsel", "extract", "save"}
            /\ q[i].pc = "done" =>
                  /\ IsFailure(q[i].resp)
                  /\ q[i].resp.query = queries[i]
                  /\ q[i].resp.results[1].snippet # ""

\* C11, witness: a page without any candidate made the query fail at the
\* search input
C11_Witness ==
    \E i \in DOMAIN q :
      /\ homeInputs = {}
      /\ q[i].pc = "done"
      /\ q[i].resp = Failure(queries[i], "Could not find search box")

\* a saveBrowserState call of query i has just thrown
SaveFailed(i) ==
    q[i].lastSave.snapshot = "failed" \/ q[i].lastSave.sidecar = "failed"

\* C12: a failure to persist state after the extraction is not fatal: the
\* query whose save at the end of the search threw still answers with a
\* response that is no failure record.
C12_SaveNonFatal ==
    \A i \in DOMAIN q :
      (q[i].pc = "done" /\ q[i].typed # 0 /\ SaveFailed(i))
          => q[i].resp.query = queries[i] /\ ~IsFailure(q[i].resp)

\* C13: the two writes of saveBrowserState are independent: when the write
\* of the snapshot fails the sidecar is written all the same, and when the
\* write of the sidecar fails the snapshot is.
C13_WritesIndependent ==
    \A i \in DOMAIN q :
      /\ q[i].lastSave.snapshot = "failed" => q[i].lastSave.sidecar # "skipped"
      /\ q[i].lastSave.sidecar = "failed" => q[i].lastSave.snapshot # "skipped"

\* the sidecar of a state file is missing or holds no JSON
NoSidecar(d, file) ==
    \/ ~ExistsSync(d, FingerprintFile(file))
    \/ d[FingerprintFile(file)].kind = "garbage"

\* C14: loadSavedState returns an empty SavedState and no snapshot whenever
\* the snapshot is missing, the sidecar is missing or the sidecar is no
\* JSON.  Read where a call is about to set up its first session: in A
\* what the load at the start of googleSearch has returned, in B what the
\* load of setupContext returns.
C14_LoadEmpty ==
    \A i \in DOMAIN q :
      (q[i].pc = "setup" /\ Len(q[i].attempts) = 1) =>
         LET file == QueryStateFile(i)
             l == IF impl = "A"
                  THEN [storageState |-> q[i].storageState,
                        savedState |-> q[i].savedState]
                  ELSE LoadSavedState(disk, file)
         IN  (~ExistsSync(disk, file) \/ NoSidecar(disk, file)) =>
                l.savedState = EmptyState /\ l.storageState = << >>

\* C15: a save that wrote both files, followed by a load of the same state
\* file, returns the SavedState that was saved: the same fingerprint and the
\* same domain.
C15_RoundTrip ==
    \A i \in DOMAIN q :
      (q[i].lastSave.snapshot = "written" /\ q[i].lastSave.sidecar = "written") =>
         LET l == LoadSavedState(disk, QueryStateFile(i))
         IN  /\ l.savedState = q[i].savedState
             /\ l.storageState = QueryStateFile(i)

\* C15, witness: a call that found no state has saved a fingerprint and a
\* domain
C15_Witness ==
    \E i \in DOMAIN q :
      /\ q[i].lastSave.snapshot = "written" /\ q[i].lastSave.sidecar = "written"
      /\ run = 1
      /\ Truthy(q[i].savedState, "fingerprint")
      /\ Truthy(q[i].savedState, "googleDomain")
      /\ disk[FingerprintFile(QueryStateFile(i))].kind = "json"

\* the SavedState a load of the state file of query i returns from disk d
Persisted(d, i) == LoadSavedState(d, QueryStateFile(i)).savedState

\* the sessions of query i that a step has created
CreatedSessions(i) ==
    IF i \in DOMAIN q' /\ Len(q'[i].sess) > Len(q[i].sess)
    THEN {q'[i].sess[k] : k \in (Len(q[i].sess) + 1)..Len(q'[i].sess)}
    ELSE {}

\* C16: the fingerprint is stable: once a fingerprint is persisted for a
\* state file, no step changes or loses it, and every session a call on
\* that state file creates is built from it; a fingerprint is generated
\* only when none is persisted.
C16_FingerprintStable ==
    [][\A i \in DOMAIN q :
         Truthy(Persisted(disk, i), "fingerprint") =>
            /\ Truthy(Persisted(disk', i), "fingerprint")
            /\ Persisted(disk', i)["fingerprint"] = Persisted(disk, i)["fingerprint"]
            /\ \A s \in CreatedSessions(i) :
                  /\ s.options.deviceName = Persisted(disk, i)["fingerprint"].deviceName
                  /\ s.options.colorScheme = Persisted(disk, i)["fingerprint"].colorScheme
                  /\ s.options.device = Persisted(disk, i)["fingerprint"].deviceName]_vars

\* the sessions of query i that a step has navigated to the home page
NavigatedSessions(i) ==
    IF i \in DOMAIN q' /\ Len(q'[i].sess) = Len(q[i].sess) /\ Len(q[i].sess) > 0
                       /\ Last(q[i].sess).url = << >> /\ Last(q'[i].sess).url # << >>
    THEN {Last(q'[i].sess)}
    ELSE {}

\* C17: the domain is chosen once: once a domain is recorded for a state
\* file, no step changes or loses it and every call on that state file
\* navigates to it; and the sessions of one call, the headless attempt and
\* its visible retry, navigate to the same domain.
C17_DomainStable ==
    [][\A i \in DOMAIN q :
         /\ Truthy(Persisted(disk, i), "googleDomain") =>
               /\ Truthy(Persisted(disk', i), "googleDomain")
               /\ Persisted(disk', i)["googleDomain"] = Persisted(disk, i)["googleDomain"]
               /\ \A s \in NavigatedSessions(i) :
                     s.url = Persisted(disk, i)["googleDomain"]
         /\ i \in DOMAIN q' =>
               \A k1, k2 \in DOMAIN q'[i].sess :
                  (q'[i].sess[k1].url # << >> /\ q'[i].sess[k2].url # << >>)
                      => q'[i].sess[k1].url = q'[i].sess[k2].url]_vars

\* the googleSearch call of query i is running
Running(i) == q[i].pc \notin {"idle", "done", "rejected"}

\* C18: in a batch every query has a state file of its own: no two queries
\* that run at the same time read or write the same snapshot file or the
\* same sidecar file.
C18_OwnStateFile ==
    \A i, j \in DOMAIN q :
      (i # j /\ Running(i) /\ Running(j)) =>
         /\ QueryStateFile(i) # QueryStateFile(j)
         /\ FingerprintFile(QueryStateFile(i)) # FingerprintFile(QueryStateFile(j))

\* the container of strategy k holds a valid candidate among its first n
\* elements
HasValidWithin(page, k, n) ==
    LET elements == Container(page, resultSelectors[k])
    IN  \E e \in 1..Min(n, Len(elements)) :
           elements[e].title # "" /\ elements[e].link # << >>

\* the first strategy of S, 0 (the fallback) when S is empty
FirstOf(S) == IF S = {} THEN 0 ELSE CHOOSE k \in S : \A j \in S : k <= j

\* C19 as stated: the extractor returns the results of the first strategy
\* for which the page holds at least one valid candidate, and uses the
\* fallback only when no strategy has a valid candidate on the page.
C19_FirstWithCandidate ==
    extraction.pc = "done" =>
       extraction.k =
          FirstOf({k \in 1..Len(resultSelectors) :
                     HasValidWithin(extraction.page, k, MaxElems)})

\* C19: the extractor returns the results of the first strategy that has a
\* valid candidate among the first limit elements of its container, and
\* uses the fallback only when no strategy has one there; the results are
\* those of that strategy.
C19_FirstWithinLimit ==
    extraction.pc = "done" =>
       LET first == FirstOf({k \in 1..Len(resultSelectors) :
                               HasValidWithin(extraction.page, k, limit)})
       IN  /\ extraction.k = first
           /\ extraction.results = ExtractResults(extraction.page, limit)
           /\ first # 0 =>
                /\ Len(extraction.results) > 0
                /\ extraction.results =
                      EvalStructural(Container(extraction.page, resultSelectors[first]),
                                     limit)

\* C19, witness: the fallback ran on a page whose first container holds a
\* valid candidate, beyond the first limit elements
C19_Witness ==
    /\ extraction.pc = "done"
    /\ extraction.k = 0
    /\ limit > 0
    /\ HasValidWithin(extraction.page, 1, MaxElems)

\* C20: what the fallback returns is at most limit links, none of them to
\* the host of the domain that served the page, on every domain of the pool.
C20_FallbackExcludesOwn ==
    (extraction.pc = "done" /\ extraction.k = 0) =>
       /\ Len(extraction.results) <= limit
       /\ \A n \in 1..Len(extraction.results) :
             Host(extraction.results[n].link) # Host(extraction.domain)

\* how a response classifies the end of its query
Outcome(resp) ==
    IF ~IsFailure(resp) THEN "success"
    ELSE IF resp.results[1].snippet = "Timeout" THEN "timeout"
    ELSE "error"

\* C21: every query eventually ends and returns a SearchResponse to its
\* query, which is exactly one of a success, a timeout failure or an
\* unrecoverable-error failure, when every bounded wait completes or times
\* out and every challenge shown in a visible browser is solved.
C21_EndsWithResponse ==
    <>(\A i \in DOMAIN q :
          /\ q[i].pc = "done"
          /\ q[i].resp.query = queries[i]
          /\ Outcome(q[i].resp) \in {"success", "timeout", "error"})

\* the googleSearch call of query i is running on the browser it was given
OnGiven(i) ==
    /\ Running(i)
    /\ IF q[i].pc = "launch" THEN ~q[i].force ELSE q[i].bwp

\* C22: the shared browser of a batch is never closed while a query of the
\* batch is still running on it: multiGoogleSearch closes it only after
\* every query has finished.
C22_SharedOpenWhileRunning ==
    caller = "batch" =>
       \A i \in DOMAIN q : OnGiven(i) => existing # "closed"

\* query i has a session open on the browser it was given
SessionOnGiven(i) ==
    \E k \in DOMAIN q[i].sess : q[i].sess[k].browser = 0 /\ SessionOpen(q[i], k)

\* C23: a query never closes a browser it did not launch: no step of a
\* query, whether it succeeds, fails or escalates, closes the browser the
\* query was given; the shared browser of a batch is closed by nothing but
\* the end of multiGoogleSearch itself; and while the batch runs every
\* session on the shared browser that its own query has not closed is
\* open, whatever its siblings did, escalations included.
C23_GivenBrowserKept ==
    /\ \A i \in DOMAIN q : ~q[i].closedGiven
    /\ existing = "closed" => bpc \in {"returned", "raised"}
    /\ bpc = "running" =>
          \A j \in DOMAIN q : \A k \in DOMAIN q[j].sess :
             (q[j].sess[k].browser = 0 /\ q[j].sess[k].context) => SessionOpen(q[j], k)

\* C23, witness: a query of a batch has escalated to a browser of its own
\* and ended, while the shared browser is open with a sibling's session on it
C23_Witness ==
    /\ caller = "batch"
    /\ existing = "open"
    /\ \E i, j \in DOMAIN q :
          /\ i # j
          /\ q[i].attempts = <<TRUE, FALSE>>
          /\ Len(q[i].own) = 1
          /\ q[i].pc = "done"
          /\ Running(j)
          /\ SessionOnGiven(j)

\* C24: the challenge check after the query is submitted reads the current
\* page only: a visible call waits for a second manual solve only when the
\* URL of the results page matches a challenge pattern, so a call whose
\* home-page challenge was solved and whose results page is no challenge
\* goes on to the extraction.
C24_SecondCheckCurrentPage ==
    \A i \in DOMAIN q : q[i].pc = "wait2" => q[i].blocked

\* the snapshot and the sidecar of the state file of query i are as the
\* call found them
StateUntouched(i) ==
    \A f \in FilesOf({QueryStateFile(i)}) : disk[f] = startDisk[f]

\* C25: a query that ends with the synthetic failure response leaves the
\* snapshot and the sidecar of its state file exactly as they were when
\* the query started.
C25_FailureLeavesDisk ==
    \A i \in DOMAIN q :
       (q[i].pc = "done" /\ IsFailure(q[i].resp)) => StateUntouched(i)

\* C26: the sidecar of a state file is another file than its snapshot,
\* whatever path the caller gives: a save that wrote both leaves the
\* storage snapshot in the snapshot file, and a load that found a snapshot
\* read the SavedState from another file.
C26_SidecarApart ==
    \A i \in DOMAIN q :
       /\ (q[i].lastSave.snapshot = "written" /\ q[i].lastSave.sidecar = "written") =>
             /\ disk[QueryStateFile(i)].kind = "snapshot"
             /\ FingerprintFile(QueryStateFile(i)) # QueryStateFile(i)
       /\ q[i].storageState # << >> =>
             FingerprintFile(q[i].storageState) # q[i].storageState

\* C27: with noSaveState a query writes nothing: no saveBrowserState runs
\* in any step of the call or of its escalation retry, and the snapshot
\* and the sidecar of its state file are, at every point and so on every
\* exit path, as the call found them.
C27_NoSaveWritesNothing ==
    noSaveState =>
       \A i \in DOMAIN q :
          /\ q[i].pc \notin {"presave", "save"}
          /\ q[i].lastSave = NoSave
          /\ StateUntouched(i)

\* C27, witness: with noSaveState the visible retry of an escalated query
\* returned results, with a fingerprint and a domain in memory and a state
\* file that still does not exist
C27_Witness ==
    /\ noSaveState
    /\ \E i \in DOMAIN q :
          /\ q[i].pc = "done"
          /\ ~IsFailure(q[i].resp)
          /\ q[i].attempts = <<TRUE, FALSE>>
          /\ Truthy(q[i].savedState, "fingerprint")
          /\ Truthy(q[i].savedState, "googleDomain")
          /\ \A f \in FilesOf({QueryStateFile(i)}) : ~ExistsSync(disk, f)

\* the representative zones and the offset getTimezoneOffset gives on a
\* host in the standard time of each
StandardOffset ==
    [z \in {"Asia/Shanghai", "Asia/Tokyo", "Asia/Bangkok", "Europe/London",
            "Europe/Berlin", "America/New_York"} |->
        CASE z = "Asia/Shanghai" -> -480
          [] z = "Asia/Tokyo" -> -540
          [] z = "Asia/Bangkok" -> -420
          [] z = "Europe/London" -> 0
          [] z = "Europe/Berlin" -> -60
          [] z = "America/New_York" -> 300]

\* C28: on a host whose clock offset is the standard offset of one of the
\* representative zones getHostMachineConfig returns that zone, and on
\* every other host it returns one zone of the set.
C28_ZoneOfOffset ==
    host.pc = "returned" =>
       /\ host.config.timezoneId \in DOMAIN StandardOffset
       /\ \A z \in DOMAIN StandardOffset :
             host.timezoneOffset = StandardOffset[z] => host.config.timezoneId = z

====
